---------------------------- MODULE Spec2Model ----------------------------
(***************************************************************************)
(* A model of the lazy mzML reader (src/src/lib.rs).                       *)
(*                                                                         *)
(* The file on disk is described by the byte positions that matter to the  *)
(* extractor: its length, and for every <spectrum> element the position of *)
(* its opening tag and of its closing marker "</spectrum>".  All other     *)
(* bytes are ASCII text that is no part of a closing marker.  A String is  *)
(* the sequence of file ranges it was read from, so that its length, the   *)
(* places where the marker occurs in it and the element it starts with     *)
(* are computed from the same positions as the code computes them.  Reads  *)
(* succeed (no I/O error is injected).                                     *)
(***************************************************************************)
EXTENDS Integers, Sequences, FiniteSets, TLC

VARIABLES
    mzml_struct,        \* LazyMzML.mzml_struct: the ids of run.spectrum_list.spectra, in order
    file,               \* LazyMzML.file: what is on disk, [len, short, elems]
    scan_offsets,       \* LazyMzML.scan_offsets: id -> byte offset
    cursor,             \* the position of the one open file description (shared by every &File)
    pc,                 \* per caller: "idle", "loop", "done", "panic"
    scan,               \* per caller: the id of the scan passed to fetch_scan_data
    reader,             \* per caller: the unread part of the BufReader's buffer, [lo, hi)
    xml_string,         \* per caller: the accumulated String, as file ranges
    number_of_buffers,  \* per caller: local of fetch_scan_data
    number_bytes,       \* per caller: what the last read returned (-1: no read yet)
    result,             \* per caller: what fetch_scan_data returned
    syscalls,           \* per caller: seeks and reads issued on the file by the current call
    calls,              \* per caller: how many calls of fetch_scan_data it has made itself
    owner,              \* per caller: "fetch" (a direct call) or "iter" (iter_spectrum's closure)
    iter_pos,           \* iter_spectrum: the index in spectra of the item next() maps next
    yielded,            \* iter_spectrum: the items next() has returned
    input,              \* the argument of the function applied (new, peaks, decode, rt)
    output              \* what it returned, or how it ended

storeVars == <<mzml_struct, file, scan_offsets>>
callVars == <<cursor, pc, scan, reader, xml_string, number_of_buffers,
              number_bytes, result, syscalls, calls, owner>>
iterVars == <<iter_pos, yielded>>
pureVars == <<input, output>>
vars == <<storeVars, callVars, iterVars, pureVars>>

---------------------------------------------------------------------------
(* Program constants *)

BUFFER_SIZE == 8000

\* the length of "</spectrum>", the literal 11 of the truncate
MARKER_LEN == 11

\* the capacity BufReader::new gives its buffer
DEFAULT_BUF_SIZE == 8192

(* Bounds *)

\* loop iterations of one fetch_scan_data call that the model follows
MaxBuffers == 6

\* calls of fetch_scan_data one caller makes
MaxCalls == 2

\* the callers of the concurrent specification
ParCallers == {1, 2}

Ids == <<"scan=1", "scan=2">>

\* bytes between a spectrum's opening tag and its closing marker
BodySizes == {200, 7995, 8100, 8185}

\* byte counts a read of the file may return short of what was asked
ShortReads == {205, 8000}

HeaderLen == 64
GapLen == 7
TailLen == 9000

Min(S) == CHOOSE x \in S : \A y \in S : x <= y

---------------------------------------------------------------------------
(* The file *)

\* The elements of a file whose spectra have the given body sizes.
RECURSIVE Elems(_, _)
Elems(bodies, at) ==
    IF bodies = <<>> THEN <<>>
    ELSE <<[open |-> at, close |-> at + Head(bodies)]>>
         \o Elems(Tail(bodies), at + Head(bodies) + MARKER_LEN + GapLen)

\* A file: truncated files end where the last closing marker would begin.  `short`
\* holds the byte counts a read of it may return short of what was asked.
MakeFile(bodies, truncated, short) ==
    LET es == Elems(bodies, HeaderLen)
        n == Len(es)
        last == es[n]
    IN IF truncated
       THEN [len |-> last.close, short |-> short,
             elems |-> [i \in 1..n |-> [id |-> Ids[i], open |-> es[i].open,
                                        close |-> IF i = n THEN -1 ELSE es[i].close]]]
       ELSE [len |-> last.close + MARKER_LEN + TailLen, short |-> short,
             elems |-> [i \in 1..n |-> [id |-> Ids[i], open |-> es[i].open,
                                        close |-> es[i].close]]]

\* The positions at which "</spectrum>" begins in the file.
Markers(f) == {f.elems[i].close : i \in {j \in 1..Len(f.elems) : f.elems[j].close >= 0}}

\* Which character of the marker the byte at p is (0..10), or -1 for any other byte.
CharAt(f, p) ==
    IF \E m \in Markers(f) : p - m \in 0..(MARKER_LEN - 1)
    THEN p - (CHOOSE m \in Markers(f) : p - m \in 0..(MARKER_LEN - 1))
    ELSE -1

---------------------------------------------------------------------------
(* Strings, as the file ranges they hold *)

RECURSIVE TextLen(_)
TextLen(text) ==
    IF text = <<>> THEN 0 ELSE (Head(text).hi - Head(text).lo) + TextLen(Tail(text))

\* String::push_str of the bytes [lo, hi) of the file
PushStr(text, lo, hi) ==
    IF lo >= hi THEN text
    ELSE IF text # <<>> /\ text[Len(text)].hi = lo
         THEN [text EXCEPT ![Len(text)].hi = hi]
         ELSE Append(text, [lo |-> lo, hi |-> hi])

\* The index in the String at which range s begins.
RECURSIVE SegStart(_, _)
SegStart(text, s) ==
    IF s = 1 THEN 0 ELSE SegStart(text, s - 1) + (text[s - 1].hi - text[s - 1].lo)

\* The file position of the byte at index i (from 0) of the String.
RECURSIVE TextPos(_, _)
TextPos(text, i) ==
    LET n == Head(text).hi - Head(text).lo
    IN IF i < n THEN Head(text).lo + i ELSE TextPos(Tail(text), i - n)

\* Whether "</spectrum>" occurs in the String at index j.
MarkerAt(f, text, j) ==
    /\ j >= 0
    /\ j + MARKER_LEN <= TextLen(text)
    /\ \A k \in 0..(MARKER_LEN - 1) : CharAt(f, TextPos(text, j + k)) = k

\* The indexes of the String that hold the first character of a marker.
MarkerStarts(f, text) ==
    {SegStart(text, s) + (m - text[s].lo) :
        <<s, m>> \in {c \in (1..Len(text)) \X Markers(f) :
                        text[c[1]].lo <= c[2] /\ c[2] < text[c[1]].hi}}

\* str::find("</spectrum>") on text[from..]: the index relative to from, or -1 for None.
Find(f, text, from) ==
    LET hits == {j \in MarkerStarts(f, text) : j >= from /\ MarkerAt(f, text, j)}
    IN IF hits = {} THEN -1 ELSE Min(hits) - from

\* String::truncate: no effect when new_len is not less than the length.
RECURSIVE Truncate(_, _)
Truncate(text, new_len) ==
    IF text = <<>> \/ new_len <= 0 THEN <<>>
    ELSE LET n == Head(text).hi - Head(text).lo
         IN IF new_len >= n
            THEN <<Head(text)>> \o Truncate(Tail(text), new_len - n)
            ELSE <<[lo |-> Head(text).lo, hi |-> Head(text).lo + new_len]>>

---------------------------------------------------------------------------
(* quick_xml::de::from_str::<ScanWithData> *)

\* The elements of the file whose opening tag is at p.
ElemsAt(f, p) == {i \in 1..Len(f.elems) : f.elems[i].open = p}

\* The elements that follow p with nothing but whitespace between p and their opening tag.
ElemsAfterGap(f, p) ==
    {i \in 2..Len(f.elems) :
        /\ f.elems[i - 1].close >= 0
        /\ f.elems[i - 1].close + MARKER_LEN <= p
        /\ p < f.elems[i].open}

\* Whether the first range of the String holds element i up to the end of its closing tag.
HoldsWhole(f, text, i) ==
    /\ f.elems[i].close >= 0
    /\ text[1].lo <= f.elems[i].open
    /\ text[1].hi >= f.elems[i].close + MARKER_LEN

\* Option<ScanWithData>, and Result<ScanWithData, DeError>
Some(id, intact) == [tag |-> "Some", id |-> id, intact |-> intact]
None == [tag |-> "None", id |-> "", intact |-> FALSE]
Err == [tag |-> "Err", id |-> "", intact |-> FALSE]
\* no value yet: the call has not returned
Pending == [tag |-> "pending", id |-> "", intact |-> FALSE]

\* What from_str(&xml_string) can give: a ScanWithData (its id, and whether its content
\* is that of the element of that id on disk), or Err, which the unwrap turns into a
\* panic.  The deserializer reads one element and ignores what follows it.  It reads
\* the element the String begins with when the String holds it whole.  A String that
\* begins with an opening tag and continues with bytes from elsewhere parses or not,
\* depending on the bytes at the join; so does one that begins in the whitespace
\* before an element.  Any other String is malformed.
ParseOutcomes(f, text) ==
    IF text = <<>> THEN {Err}
    ELSE LET p == text[1].lo
         IN IF ElemsAt(f, p) # {}
            THEN UNION {IF HoldsWhole(f, text, i)
                        THEN {Some(f.elems[i].id, TRUE)}
                        ELSE {Some(f.elems[i].id, FALSE), Err} : i \in ElemsAt(f, p)}
            ELSE {Err} \cup
                 {Some(f.elems[i].id, TRUE) :
                     i \in {j \in ElemsAfterGap(f, p) : HoldsWhole(f, text, j)}}

---------------------------------------------------------------------------
(* LazyMzML::fetch_scan_data *)

\* a lookup that falls back to the start of the file (unwrap_or_default)
LookupOrDefault(offsets, id) == IF id \in DOMAIN offsets THEN offsets[id] ELSE 0

\* HashMap::get
Lookup(offsets, id) == IF id \in DOMAIN offsets THEN offsets[id] ELSE -1

\* What one read(2) of up to DEFAULT_BUF_SIZE bytes at position c may return.
ReadCounts(f, c) ==
    IF c >= f.len THEN {0}
    ELSE LET full == Min({DEFAULT_BUF_SIZE, f.len - c})
         IN {full} \cup {s \in f.short : s < full}

\* xml_string.len().checked_sub(BUFFER_SIZE).unwrap_or_default()
WindowStart(len) == IF len >= BUFFER_SIZE THEN len - BUFFER_SIZE ELSE 0

\* The length the loop truncates the String to when find gave Some(n).
TruncateLen(nbuf, n) == nbuf * BUFFER_SIZE + n + MARKER_LEN

\* fetch_scan_data up to the seek: the lookup returns None for an id that is not in
\* scan_offsets before any file operation; otherwise a fresh BufReader seeks.  Called
\* from iter_spectrum's closure (by = "iter"), the None meets the expect and panics.
FetchBegin(t, id, by) ==
    /\ pc[t] \in {"idle", "done"}
    /\ owner' = [owner EXCEPT ![t] = by]
    /\ scan' = [scan EXCEPT ![t] = id]
    /\ reader' = [reader EXCEPT ![t] = [lo |-> 0, hi |-> 0]]
    /\ xml_string' = [xml_string EXCEPT ![t] = <<>>]
    /\ number_of_buffers' = [number_of_buffers EXCEPT ![t] = 0]
    /\ number_bytes' = [number_bytes EXCEPT ![t] = -1]
    /\ LET offset == Lookup(scan_offsets, id)
       IN IF offset < 0
          THEN /\ result' = [result EXCEPT ![t] = None]
               /\ pc' = [pc EXCEPT ![t] = IF by = "iter" THEN "panic" ELSE "done"]
               /\ syscalls' = [syscalls EXCEPT ![t] = 0]
               /\ UNCHANGED cursor
          ELSE /\ result' = [result EXCEPT ![t] = Pending]
               /\ pc' = [pc EXCEPT ![t] = "loop"]
               /\ syscalls' = [syscalls EXCEPT ![t] = 1]
               /\ cursor' = offset
    /\ UNCHANGED storeVars

\* One iteration of the loop: BufReader::read (a read of the file only when its buffer
\* is empty), push_str, find in the last BUFFER_SIZE bytes, and on a match truncate,
\* from_str, unwrap and return (to the caller, or to next(), which yields the item);
\* otherwise count the buffer.
ReadStep(t) ==
    /\ pc[t] = "loop"
    /\ number_of_buffers[t] < MaxBuffers
    /\ \E k \in (IF reader[t].lo = reader[t].hi THEN ReadCounts(file, cursor) ELSE {0}) :
        LET fill == reader[t].lo = reader[t].hi
            buf == IF fill THEN [lo |-> cursor, hi |-> cursor + k] ELSE reader[t]
            n == Min({BUFFER_SIZE, buf.hi - buf.lo})
            text == PushStr(xml_string[t], buf.lo, buf.lo + n)
            hit == Find(file, text, WindowStart(TextLen(text)))
            cut == Truncate(text, TruncateLen(number_of_buffers[t], hit))
        IN /\ cursor' = IF fill THEN cursor + k ELSE cursor
           /\ syscalls' = [syscalls EXCEPT ![t] = IF fill THEN @ + 1 ELSE @]
           /\ reader' = [reader EXCEPT ![t] = [lo |-> buf.lo + n, hi |-> buf.hi]]
           /\ number_bytes' = [number_bytes EXCEPT ![t] = n]
           /\ IF hit >= 0
              THEN /\ xml_string' = [xml_string EXCEPT ![t] = cut]
                   /\ UNCHANGED number_of_buffers
                   /\ \E out \in ParseOutcomes(file, cut) :
                        IF out = Err
                        THEN /\ pc' = [pc EXCEPT ![t] = "panic"]
                             /\ UNCHANGED <<result, iterVars>>
                        ELSE /\ pc' = [pc EXCEPT ![t] = "done"]
                             /\ result' = [result EXCEPT ![t] = out]
                             /\ IF owner[t] = "iter"
                                THEN /\ yielded' = Append(yielded, out)
                                     /\ iter_pos' = iter_pos + 1
                                ELSE UNCHANGED iterVars
              ELSE /\ xml_string' = [xml_string EXCEPT ![t] = text]
                   /\ number_of_buffers' = [number_of_buffers EXCEPT ![t] = @ + 1]
                   /\ UNCHANGED <<pc, result, iterVars>>
    /\ UNCHANGED <<storeVars, scan, calls, owner>>

---------------------------------------------------------------------------
(* The store after LazyMzML::new, and its callers *)

\* A map filled from the same entries in which the first entry of an id is kept
\* (what an insert that never replaces would build).
InsertAllKeepFirst(map, entries) ==
    [k \in DOMAIN map \cup {entries[i].id_ref : i \in 1..Len(entries)} |->
        IF k \in DOMAIN map THEN map[k]
        ELSE entries[Min({i \in 1..Len(entries) : entries[i].id_ref = k})].offset]

\* for_each(|offset| scan_offsets.insert(id_ref, offset)): a later entry replaces an
\* earlier one of the same id.
RECURSIVE InsertAll(_, _)
InsertAll(map, entries) ==
    IF entries = <<>> THEN map
    ELSE LET e == Head(entries)
             ins == [k \in DOMAIN map \cup {e.id_ref} |->
                        IF k = e.id_ref THEN e.offset ELSE map[k]]
         IN InsertAll(ins, Tail(entries))

\* The index entries of a file whose index lists the elements in `listed`.
RECURSIVE IndexOf(_, _, _)
IndexOf(f, listed, i) ==
    IF i > Len(f.elems) THEN <<>>
    ELSE (IF i \in listed
          THEN <<[id_ref |-> f.elems[i].id, offset |-> f.elems[i].open]>>
          ELSE <<>>) \o IndexOf(f, listed, i + 1)

EmptyMap == [k \in {} |-> 0]

\* The store of a file of two spectra: the metadata list holds both, the index those
\* listed, each at the offset of its opening tag.
InitStore(bodies, truncs, listeds, short) ==
    \E b1 \in bodies, b2 \in bodies, truncated \in truncs, listed \in listeds :
        /\ file = MakeFile(<<b1, b2>>, truncated, short)
        /\ mzml_struct = [i \in 1..2 |-> Ids[i]]
        /\ scan_offsets = InsertAll(EmptyMap, IndexOf(file, listed, 1))

\* new leaves the cursor where from_reader stopped reading: at the end of the file.
InitCalls(ts) ==
    /\ cursor = file.len
    /\ pc = [t \in ts |-> "idle"]
    /\ scan = [t \in ts |-> ""]
    /\ reader = [t \in ts |-> [lo |-> 0, hi |-> 0]]
    /\ xml_string = [t \in ts |-> <<>>]
    /\ number_of_buffers = [t \in ts |-> 0]
    /\ number_bytes = [t \in ts |-> -1]
    /\ result = [t \in ts |-> Pending]
    /\ syscalls = [t \in ts |-> 0]
    /\ calls = [t \in ts |-> 0]
    /\ owner = [t \in ts |-> "fetch"]
    /\ iter_pos = 1
    /\ yielded = <<>>

\* A caller fetches any scan of iter_scan.
Fetch ==
    \E t \in DOMAIN pc : \E i \in 1..Len(mzml_struct) :
        /\ calls[t] < MaxCalls
        /\ FetchBegin(t, mzml_struct[i], "fetch")
        /\ calls' = [calls EXCEPT ![t] = @ + 1]
        /\ UNCHANGED <<iterVars, pureVars>>

\* next() of iter_spectrum: the closure fetches the next item of spectra.
IterNext ==
    \E t \in DOMAIN pc :
        /\ iter_pos <= Len(mzml_struct)
        /\ FetchBegin(t, mzml_struct[iter_pos], "iter")
        /\ UNCHANGED <<calls, iterVars, pureVars>>

Read == \E t \in DOMAIN pc : ReadStep(t) /\ UNCHANGED pureVars

(* One caller: direct fetches and an iter_spectrum, in any order *)

\* No function is under check in the specifications of the store.
NoFunction == input = <<>> /\ output = <<>>

Init ==
    /\ InitStore(BodySizes, BOOLEAN, {{1, 2}, {1}, {2}}, ShortReads)
    /\ InitCalls({1})
    /\ NoFunction

Next == Fetch \/ IterNext \/ Read

Spec == Init /\ [][Next]_vars

(* Two callers on one store, their file operations interleaved *)

InitPar ==
    /\ InitStore({200, 8100}, {FALSE}, {{1, 2}}, {})
    /\ InitCalls(ParCallers)
    /\ NoFunction

NextPar == Fetch \/ Read

SpecPar == InitPar /\ [][NextPar]_vars

---------------------------------------------------------------------------
(* Properties of fetch_scan_data and iter_spectrum *)

\* The callers that are in a call of fetch_scan_data or have returned from one.
Called == {t \in DOMAIN pc : scan[t] # ""}

\* The first closing marker of the file at or after position p, or -1.
FirstMarker(f, p) ==
    LET after == {m \in Markers(f) : m >= p}
    IN IF after = {} THEN -1 ELSE Min(after)

\* The index lists every spectrum at its opening tag and no closing marker is missing.
WellFormed ==
    /\ \A i \in 1..Len(file.elems) :
        /\ file.elems[i].close >= 0
        /\ Lookup(scan_offsets, file.elems[i].id) = file.elems[i].open
    /\ \A i \in 1..Len(mzml_struct) : \E j \in 1..Len(file.elems) :
        file.elems[j].id = mzml_struct[i]

\* C1: fetch_scan_data terminates on every file: a read that returns zero bytes (the
\* end of the file was reached with no closing marker found) ends the call with the
\* failure outcome, which for an Option is None.
C1_ZeroReadEndsFetch ==
    \A t \in Called :
        number_bytes[t] = 0 => (pc[t] = "done" /\ result[t] = None)

\* C2: whatever the chunks the reads return, the loop stops at the read that completes
\* the first closing marker at or after the offset, and the String handed to the
\* parser is exactly the bytes from the offset through the last byte of that marker.
C2_ExactFragment ==
    \A t \in Called :
        LET off == Lookup(scan_offsets, scan[t])
            m == FirstMarker(file, off)
        IN (off >= 0 /\ m >= 0) =>
            /\ pc[t] = "loop" => TextLen(xml_string[t]) < m + MARKER_LEN - off
            /\ pc[t] # "loop" => xml_string[t] = <<[lo |-> off, hi |-> m + MARKER_LEN]>>

\* C3: with the seeks and reads of concurrent callers interleaved in any order, every
\* fetch returns the scan data of the id it was asked for, as it does when the
\* fetches run one after another.
C3_ConcurrentFetchReturnsRequested ==
    \A t \in Called :
        /\ pc[t] # "panic"
        /\ pc[t] = "done" => result[t] = Some(scan[t], TRUE)

\* C4: on a well-formed indexed file and after any earlier calls of the one caller,
\* fetch_scan_data returns the ScanWithData of the requested id: it has returned it
\* by the time the reads reach the end of the file, wherever the cursor was left.
C4_FetchReturnsRequested ==
    WellFormed =>
        \A t \in Called :
            /\ pc[t] # "panic"
            /\ pc[t] = "done" => result[t] = Some(scan[t], TRUE)
            /\ number_bytes[t] = 0 => pc[t] = "done"

\* C6: in iter_spectrum a scan whose fetch fails is an item of its own: the iteration
\* is not aborted, and the later scans are still fetched.
C6_IterationNotAborted ==
    \A t \in Called : owner[t] = "iter" => pc[t] # "panic"

\* C7: fetch_scan_data for a scan whose id is not in scan_offsets returns the failure
\* outcome (None) without a seek or a read on the file.
C7_UnknownIdNoFileAccess ==
    \A t \in Called :
        scan[t] \notin DOMAIN scan_offsets =>
            /\ result[t] = None
            /\ syscalls[t] = 0
            /\ pc[t] \in {"done", "panic"}

C7_Witness ==
    \E t \in Called :
        /\ scan[t] \notin DOMAIN scan_offsets
        /\ owner[t] = "fetch"
        /\ pc[t] = "done"
        /\ calls[t] > 1

\* The part of C4 that holds of the code: a call that returns, returns the requested
\* scan, wherever earlier calls left the cursor.
FetchReturnsRequestedIfItReturns ==
    WellFormed =>
        \A t \in Called :
            /\ pc[t] # "panic"
            /\ pc[t] = "done" => result[t] = Some(scan[t], TRUE)

---------------------------------------------------------------------------
(* LazyMzML::new *)

\* sections an IndexList of the inputs holds at most
MaxSections == 2

\* Option<T>
OptNone == [some |-> FALSE]
OptSome(v) == [some |-> TRUE, value |-> v]

IndexNames == {"spectrum", "chromatogram", "other"}

\* Vec<Offset> of the inputs: empty, one entry, two ids, one id twice, one id twice
\* around another
OffsetLists ==
    {<<>>,
     <<[id_ref |-> "scan=1", offset |-> 64]>>,
     <<[id_ref |-> "scan=1", offset |-> 64], [id_ref |-> "scan=2", offset |-> 282]>>,
     <<[id_ref |-> "scan=1", offset |-> 64], [id_ref |-> "scan=1", offset |-> 282]>>,
     <<[id_ref |-> "scan=1", offset |-> 500], [id_ref |-> "scan=2", offset |-> 282],
       [id_ref |-> "scan=1", offset |-> 64]>>}

Indexes == [name : IndexNames, offsets : OffsetLists]

SeqsUpTo(S, n) == UNION {[1..k -> S] : k \in 0..n}

\* What from_reader gives: whether the envelope deserializes, and its index_list and
\* index fields (IndexList by its indexs).
Envelopes ==
    [parses : BOOLEAN,
     index_list : {OptNone} \cup {OptSome(l) : l \in SeqsUpTo(Indexes, MaxSections)},
     index : {OptNone} \cup {OptSome(x) : x \in Indexes}]

\* match &mzml.index_list: the list, or a list of the bare index, or an empty list
ResolveIndexList(mzml) ==
    IF mzml.index_list.some THEN mzml.index_list.value
    ELSE IF mzml.index.some THEN <<mzml.index.value>>
    ELSE <<>>

\* iter().find(|index| index.name == name): the position of the first such index, 0 for None
FindIndex(indexs, name) ==
    LET at == {k \in 1..Len(indexs) : indexs[k].name = name}
    IN IF at = {} THEN 0 ELSE Min(at)

\* LazyMzML::new: Err when the envelope does not deserialize; a panic of the expect
\* when the spectrum index, and then when the chromatogram index, is not found;
\* otherwise the store with both maps.
New(mzml) ==
    IF ~mzml.parses THEN [tag |-> "Err", error |-> "MzMLFormatError"]
    ELSE LET index_list == ResolveIndexList(mzml)
             sp == FindIndex(index_list, "spectrum")
             ch == FindIndex(index_list, "chromatogram")
         IN IF sp = 0 THEN [tag |-> "panic", error |-> "All indexed mzML should have a spectrum index"]
            ELSE IF ch = 0 THEN [tag |-> "panic", error |-> "All indexed mzML should have a chromatogram index"]
            ELSE [tag |-> "Ok", error |-> "",
                  scan_offsets |-> InsertAll(EmptyMap, index_list[sp].offsets),
                  chromatogram_offsets |-> InsertAll(EmptyMap, index_list[ch].offsets)]

\* The store and its callers take no part in the check of a function.
IdleStore ==
    /\ mzml_struct = <<>>
    /\ file = [len |-> 0, short |-> {}, elems |-> <<>>]
    /\ scan_offsets = EmptyMap
    /\ InitCalls({})

\* the function has not been applied yet
NotApplied == [tag |-> "pending"]

InitNew ==
    /\ IdleStore
    /\ input \in Envelopes
    /\ output = NotApplied

OpenFile ==
    /\ output = NotApplied
    /\ output' = New(input)
    /\ UNCHANGED <<input, storeVars, callVars, iterVars>>

NextNew == OpenFile

SpecNew == InitNew /\ [][NextNew]_vars

\* C5: opening a file whose index sections hold no section named "spectrum" returns
\* the error to the caller (an Err, and no store): it is no panic.
C5_IndexMissingIsReturned ==
    (/\ output # NotApplied
     /\ input.parses
     /\ ResolveIndexList(input) # <<>>
     /\ FindIndex(ResolveIndexList(input), "spectrum") = 0)
        => output.tag = "Err"

\* The map `map` is the one of the entries `offs`: its keys are the reference ids of
\* the entries, and an id is mapped to the offset of its last entry.
MapOfSection(map, offs) ==
    /\ DOMAIN map = {offs[k].id_ref : k \in 1..Len(offs)}
    /\ \A k \in 1..Len(offs) :
          (\A j \in (k + 1)..Len(offs) : offs[j].id_ref # offs[k].id_ref)
              => map[offs[k].id_ref] = offs[k].offset

\* The entries of the section named `name` (the first of that name in list order).
SectionOffsets(mzml, name) ==
    ResolveIndexList(mzml)[FindIndex(ResolveIndexList(mzml), name)].offsets

\* an id occurs more than once in the entries, with different offsets
HasDuplicateId(offs) ==
    \E j, k \in 1..Len(offs) :
        j < k /\ offs[j].id_ref = offs[k].id_ref /\ offs[j].offset # offs[k].offset

\* C11: after a successful open the keys of scan_offsets are the reference ids of the
\* "spectrum" section and every id is mapped to the offset of its last entry in
\* section order; the same for chromatogram_offsets and the "chromatogram" section.
C11_OffsetsLastWins ==
    (output # NotApplied /\ output.tag = "Ok")
        => /\ MapOfSection(output.scan_offsets, SectionOffsets(input, "spectrum"))
           /\ MapOfSection(output.chromatogram_offsets, SectionOffsets(input, "chromatogram"))

\* a successful open of a file in which both sections hold an id twice, at different
\* offsets
C11_Witness ==
    /\ output # NotApplied
    /\ output.tag = "Ok"
    /\ HasDuplicateId(SectionOffsets(input, "spectrum"))
    /\ HasDuplicateId(SectionOffsets(input, "chromatogram"))
    /\ Len(SectionOffsets(input, "spectrum")) = 3

---------------------------------------------------------------------------
(* BinaryDataArray::decode and ScanWithData::peaks *)

\* binary data arrays a ScanWithData of the inputs holds at most
MaxArrays == 2

\* the characters of str s, from 1
CharOf(s, i) == SubSeq(s, i, i)

\* whether pat occurs in s (str::find(pat).is_some())
Contains(s, pat) ==
    \E i \in 1..(Len(s) - Len(pat) + 1) : SubSeq(s, i, i + Len(pat) - 1) = pat

B64Alphabet == "ABCDEFGHIJKLMNOPQRSTUVWXYZabcdefghijklmnopqrstuvwxyz0123456789+/"

\* the value of a base64 symbol, -1 for a character that is none
Sextet(c) ==
    LET at == {i \in 1..Len(B64Alphabet) : CharOf(B64Alphabet, i) = c}
    IN IF at = {} THEN -1 ELSE (CHOOSE i \in at : TRUE) - 1

Ok(v) == [ok |-> TRUE, value |-> v]
Fail(e) == [ok |-> FALSE, error |-> e]

\* the bytes of the complete quads of symbols s[i..]
RECURSIVE QuadBytes(_, _, _)
QuadBytes(s, i, last) ==
    IF i + 3 > last THEN <<>>
    ELSE LET v == Sextet(CharOf(s, i)) * 262144 + Sextet(CharOf(s, i + 1)) * 4096
                  + Sextet(CharOf(s, i + 2)) * 64 + Sextet(CharOf(s, i + 3))
         IN <<v \div 65536, (v \div 256) % 256, v % 256>> \o QuadBytes(s, i + 4, last)

\* base64_decode: general_purpose::STANDARD.decode.  The text is quads of symbols of
\* the standard alphabet, the last one padded with "=" to four characters, and the
\* bits a padded quad does not use are zero.
base64_decode(data) ==
    LET n == Len(data)
        pad == IF n >= 2 /\ CharOf(data, n) = "=" /\ CharOf(data, n - 1) = "=" THEN 2
               ELSE IF n >= 1 /\ CharOf(data, n) = "=" THEN 1 ELSE 0
        last == n - pad
        full == last - (last % 4)
        rest == last % 4
    IN IF n % 4 # 0 THEN Fail("Base64DecodeError")
       ELSE IF \E i \in 1..last : Sextet(CharOf(data, i)) < 0 THEN Fail("Base64DecodeError")
       ELSE IF rest = 0
            THEN (IF pad = 0 THEN Ok(QuadBytes(data, 1, last)) ELSE Fail("Base64DecodeError"))
       ELSE IF rest = 3
            THEN LET v == Sextet(CharOf(data, full + 1)) * 4096
                          + Sextet(CharOf(data, full + 2)) * 64
                          + Sextet(CharOf(data, full + 3))
                 IN IF v % 4 # 0 THEN Fail("Base64DecodeError")
                    ELSE Ok(QuadBytes(data, 1, full) \o <<v \div 1024, (v \div 4) % 256>>)
       ELSE LET v == Sextet(CharOf(data, full + 1)) * 64 + Sextet(CharOf(data, full + 2))
            IN IF v % 16 # 0 THEN Fail("Base64DecodeError")
               ELSE Ok(QuadBytes(data, 1, full) \o <<v \div 16>>)

RECURSIVE Adler32(_, _, _, _)
Adler32(bytes, i, a, b) ==
    IF i > Len(bytes) THEN <<b \div 256, b % 256, a \div 256, a % 256>>
    ELSE LET a2 == (a + bytes[i]) % 65521
         IN Adler32(bytes, i + 1, a2, (b + a2) % 65521)

\* DeflateDecoder::decode_zlib, for a stream of one stored block (the inputs hold no
\* compressed block): the zlib header, the block header with LEN and its complement,
\* LEN bytes, and their Adler-32.
decode_zlib(z) ==
    IF Len(z) < 11 THEN Fail("ZlibDecodeError")
    ELSE LET len == z[4] + 256 * z[5]
             nlen == z[6] + 256 * z[7]
             data == SubSeq(z, 8, 7 + len)
         IN IF /\ z[1] % 16 = 8
               /\ (z[1] * 256 + z[2]) % 31 = 0
               /\ (z[2] \div 32) % 2 = 0
               /\ z[3] = 1
               /\ len + nlen = 65535
               /\ Len(z) = 11 + len
               /\ SubSeq(z, 8 + len, 11 + len) = Adler32(data, 1, 1, 0)
            THEN Ok(data)
            ELSE Fail("ZlibDecodeError")

\* find_zlib_and_float_size: over the cv names in order; 64 unless a name holds
\* "32-bit float", and again 64 when it or a later one holds "64-bit float".
RECURSIVE FindZlibAndFloatSize(_, _, _)
FindZlibAndFloatSize(cv_param, zlib, float_size) ==
    IF cv_param = <<>> THEN <<zlib, float_size>>
    ELSE LET name == Head(cv_param)
             size32 == IF Contains(name, "32-bit float") THEN 32 ELSE float_size
             size64 == IF Contains(name, "64-bit float") THEN 64 ELSE size32
         IN FindZlibAndFloatSize(Tail(cv_param), zlib \/ Contains(name, "zlib"), size64)

find_zlib_and_float_size(array) == FindZlibAndFloatSize(array.cv_param, FALSE, 64)

\* An f64 by its bits: sign, biased exponent, and the 52 bits of the fraction as
\* its upper and its lower 26.
\* f64::from_le_bytes
F64FromLeBytes(c) ==
    [sign |-> c[8] \div 128,
     exp |-> (c[8] % 128) * 16 + c[7] \div 16,
     hi |-> (c[7] % 16) * 4194304 + c[6] * 16384 + c[5] * 64 + c[4] \div 4,
     lo |-> (c[4] % 4) * 16777216 + c[3] * 65536 + c[2] * 256 + c[1]]

\* f32::from_le_bytes
F32FromLeBytes(c) ==
    [sign |-> c[4] \div 128,
     exp |-> (c[4] % 128) * 2 + c[3] \div 128,
     frac |-> (c[3] % 128) * 65536 + c[2] * 256 + c[1]]

RECURSIVE Pow2(_)
Pow2(k) == IF k = 0 THEN 1 ELSE 2 * Pow2(k - 1)

\* `as f64` of an f32: the same value; exact.
F32AsF64(f) ==
    IF f.exp = 255 THEN [sign |-> f.sign, exp |-> 2047, hi |-> f.frac * 8, lo |-> 0]
    ELSE IF f.exp > 0 THEN [sign |-> f.sign, exp |-> f.exp + 896, hi |-> f.frac * 8, lo |-> 0]
    ELSE IF f.frac = 0 THEN [sign |-> f.sign, exp |-> 0, hi |-> 0, lo |-> 0]
    ELSE LET k == CHOOSE k \in 0..22 : Pow2(k) <= f.frac /\ f.frac < Pow2(k + 1)
         IN [sign |-> f.sign, exp |-> 874 + k,
             hi |-> (f.frac - Pow2(k)) * Pow2(26 - k), lo |-> 0]

\* for chunk in binary.chunks(width): a chunk of the full width gives a value, the
\* shorter last one is dropped.
RECURSIVE Chunks64(_)
Chunks64(binary) ==
    IF Len(binary) < 8 THEN <<>>
    ELSE <<F64FromLeBytes(SubSeq(binary, 1, 8))>> \o Chunks64(SubSeq(binary, 9, Len(binary)))

RECURSIVE Chunks32(_)
Chunks32(binary) ==
    IF Len(binary) < 4 THEN <<>>
    ELSE <<F32AsF64(F32FromLeBytes(SubSeq(binary, 1, 4)))>>
         \o Chunks32(SubSeq(binary, 5, Len(binary)))

\* BinaryDataArray::decode: Ok(values), Err(error) or a panic.
decode(array) ==
    LET b64 == base64_decode(array.binary)
        flags == find_zlib_and_float_size(array)
        zlib == flags[1]
        float_size == flags[2]
        inflated == IF zlib THEN decode_zlib(b64.value) ELSE b64
    IN IF ~b64.ok THEN [tag |-> "Err", error |-> b64.error, data |-> <<>>]
       ELSE IF ~inflated.ok THEN [tag |-> "Err", error |-> inflated.error, data |-> <<>>]
       ELSE IF float_size = 64
            THEN [tag |-> "Ok", error |-> "", data |-> Chunks64(inflated.value)]
       ELSE IF float_size = 32
            THEN [tag |-> "Ok", error |-> "", data |-> Chunks32(inflated.value)]
       ELSE [tag |-> "panic", error |-> "Unknow data size", data |-> <<>>]

\* find_binary_by_cv_name: the position of the first array with a cv name that holds
\* cv_name, 0 for None
find_binary_by_cv_name(arrays, cv_name) ==
    LET at == {k \in 1..Len(arrays) :
                  \E c \in 1..Len(arrays[k].cv_param) : Contains(arrays[k].cv_param[c], cv_name)}
    IN IF at = {} THEN 0 ELSE Min(at)

\* Iterator::zip: as long as the shorter
Zip(a, b) == [i \in 1..Min({Len(a), Len(b)}) |-> <<a[i], b[i]>>]

\* ScanWithData::peaks
peaks(arrays) ==
    LET mz_array == find_binary_by_cv_name(arrays, "m/z array")
        intensity_array == find_binary_by_cv_name(arrays, "intensity array")
    IN IF mz_array = 0
       THEN [tag |-> "panic", error |-> "All spectra should have an m/z array", data |-> <<>>]
       ELSE IF intensity_array = 0
       THEN [tag |-> "panic", error |-> "All spectra should have an intensity array", data |-> <<>>]
       ELSE LET mz == decode(arrays[mz_array])
                intensity == decode(arrays[intensity_array])
            IN IF mz.tag # "Ok" THEN mz
               ELSE IF intensity.tag # "Ok" THEN intensity
               ELSE [tag |-> "Ok", error |-> "", data |-> Zip(mz.data, intensity.data)]

\* The arrays of the inputs: which array it is, the precision it declares, whether it
\* is compressed, and its text.
ArrayKinds == {"m/z array", "intensity array"}
ArrayPrecisions == {<<>>, <<"32-bit float">>, <<"64-bit float">>, <<"32-bit integer">>}
ArrayCompressions == {<<"no compression">>, <<"zlib compression">>}

\* base64 of: the f64 445.34 (or two f32); the f64s 445.34 and 1000.0; the f32s 1.5,
\* -2.0 and 0.0; the zlib stream that stores the f64 445.34; and a text that is no base64
ArrayTexts ==
    {"PQrXo3DVe0A=", "PQrXo3DVe0AAAAAAAECPQA==", "AADAPwAAAMAAAAAA",
     "eAEBCAD3/z0K16Nw1XtAD+QDwg==", "PQrX*3DVe0A="}

BinaryDataArrays ==
    {[cv_param |-> <<k>> \o p \o c, binary |-> b] :
        k \in ArrayKinds, p \in ArrayPrecisions, c \in ArrayCompressions, b \in ArrayTexts}

InitDecode ==
    /\ IdleStore
    /\ input \in SeqsUpTo(BinaryDataArrays, MaxArrays)
    /\ output = NotApplied

\* decode of one array of the list
Decode ==
    \E k \in 1..Len(input) :
        /\ output = NotApplied
        /\ output' = [op |-> "decode", array |-> k, res |-> decode(input[k])]
        /\ UNCHANGED <<input, storeVars, callVars, iterVars>>

\* peaks of the ScanWithData that holds the list
Peaks ==
    /\ output = NotApplied
    /\ output' = [op |-> "peaks", array |-> 0, res |-> peaks(input)]
    /\ UNCHANGED <<input, storeVars, callVars, iterVars>>

NextDecode == Decode \/ Peaks

SpecDecode == InitDecode /\ [][NextDecode]_vars

\* C8: peaks on arrays whose decoded m/z and intensity values differ in number fails
\* (ArrayLengthMismatchError) and returns no shortened list; on equally many it
\* returns that many pairs, paired index by index.
C8_LengthMismatchIsError ==
    (output # NotApplied /\ output.op = "peaks") =>
        LET m == find_binary_by_cv_name(input, "m/z array")
            n == find_binary_by_cv_name(input, "intensity array")
        IN (m # 0 /\ n # 0 /\ decode(input[m]).tag = "Ok" /\ decode(input[n]).tag = "Ok") =>
            LET mz == decode(input[m]).data
                intensity == decode(input[n]).data
            IN IF Len(mz) # Len(intensity)
               THEN output.res.tag = "Err"
               ELSE /\ output.res.tag = "Ok"
                    /\ output.res.data = [i \in 1..Len(mz) |-> <<mz[i], intensity[i]>>]

\* a cv name that declares a width of the values
DeclaresPrecision(name) == Contains(name, "-bit ")
SupportedPrecision(name) == Contains(name, "32-bit float") \/ Contains(name, "64-bit float")

\* C9: decode of an array whose cv records declare a precision other than "32-bit
\* float" and "64-bit float" ends with an error (UnsupportedPrecisionError): it does
\* not panic and returns no values decoded at a width the array does not declare.
C9_OtherPrecisionIsError ==
    (output # NotApplied /\ output.op = "decode") =>
        LET cv == input[output.array].cv_param
        IN (/\ \E c \in 1..Len(cv) : DeclaresPrecision(cv[c]) /\ ~SupportedPrecision(cv[c])
            /\ \A c \in 1..Len(cv) : ~SupportedPrecision(cv[c]))
           => output.res.tag = "Err"

---------------------------------------------------------------------------
(* MassScan::rt of ScanWithoutData and of ScanWithData *)

\* cv records a Scan of the inputs holds at most
MaxCvs == 2

Digits == "0123456789"

DigitOf(c) ==
    LET at == {i \in 1..Len(Digits) : CharOf(Digits, i) = c}
    IN IF at = {} THEN -1 ELSE (CHOOSE i \in at : TRUE) - 1

\* str::parse::<f32> of a decimal numeral (digits, at most one point, at least one
\* digit), as thousandths; any other text of the inputs is no number.
RECURSIVE ParseDecimal(_, _, _, _, _, _)
ParseDecimal(s, i, acc, scale, dot, digits) ==
    IF i > Len(s)
    THEN (IF digits = 0 THEN Fail("ParseFloatError") ELSE Ok(acc * (1000 \div scale)))
    ELSE LET c == CharOf(s, i)
         IN IF c = "."
            THEN (IF dot THEN Fail("ParseFloatError")
                  ELSE ParseDecimal(s, i + 1, acc, scale, TRUE, digits))
            ELSE IF DigitOf(c) < 0 THEN Fail("ParseFloatError")
            ELSE IF dot /\ scale = 1000 THEN ParseDecimal(s, i + 1, acc, scale, dot, digits + 1)
            ELSE ParseDecimal(s, i + 1, acc * 10 + DigitOf(c),
                              IF dot THEN scale * 10 ELSE scale, dot, digits + 1)

ParseF32(s) == ParseDecimal(s, 1, 0, 1, FALSE, 0)

\* Time::new::<minute> and Time::new::<second>: the time in thousandths of a second
TimeOfMinutes(t) == t * 60
TimeOfSeconds(t) == t

\* cv_param.iter().find(|c| c.name.find(name).is_some()): its position, 0 for None
FindCv(cv_param, name) ==
    LET at == {k \in 1..Len(cv_param) : Contains(cv_param[k].name, name)}
    IN IF at = {} THEN 0 ELSE Min(at)

\* The body both implementations share word for word.
RtBody(scan_list) ==
    IF scan_list = <<>> THEN [tag |-> "None", time |-> 0]
    ELSE LET cv_param == Head(scan_list).cv_param
             k == FindCv(cv_param, "scan start time")
         IN IF k = 0 THEN [tag |-> "None", time |-> 0]
            ELSE LET rt_cv == cv_param[k]
                     time == ParseF32(rt_cv.value)
                 IN IF ~time.ok THEN [tag |-> "panic", time |-> 0]
                    ELSE IF ~rt_cv.unit_name.some THEN [tag |-> "None", time |-> 0]
                    ELSE IF rt_cv.unit_name.value = "minute"
                         THEN [tag |-> "Some", time |-> TimeOfMinutes(time.value)]
                    ELSE IF rt_cv.unit_name.value = "second"
                         THEN [tag |-> "Some", time |-> TimeOfSeconds(time.value)]
                    ELSE [tag |-> "Some", time |-> TimeOfMinutes(time.value)]

\* <ScanWithoutData as MassScan>::rt
rt_ScanWithoutData(scan_list) == RtBody(scan_list)

\* <ScanWithData as MassScan>::rt
rt_ScanWithData(scan_list) == RtBody(scan_list)

CvNames == {"scan start time", "preset scan configuration"}
CvValues == {"2.5", "60", "n/a"}
CvUnits == {OptNone, OptSome("minute"), OptSome("second"), OptSome("hour")}
CvParams == [name : CvNames, value : CvValues, unit_name : CvUnits]
Scans == {[cv_param |-> c] : c \in SeqsUpTo(CvParams, MaxCvs)}

\* scan_list.scan: empty, one acquisition entry, or one followed by a second
LaterScans ==
    {<<>>,
     <<[cv_param |-> <<>>]>>,
     <<[cv_param |-> <<[name |-> "scan start time", value |-> "60",
                        unit_name |-> OptSome("minute")]>>]>>}

InitRt ==
    /\ IdleStore
    /\ input \in {<<>>} \cup {<<first>> \o later : first \in Scans, later \in LaterScans}
    /\ output = NotApplied

RtWithoutData ==
    /\ output = NotApplied
    /\ output' = [of |-> "ScanWithoutData", res |-> rt_ScanWithoutData(input)]
    /\ UNCHANGED <<input, storeVars, callVars, iterVars>>

RtWithData ==
    /\ output = NotApplied
    /\ output' = [of |-> "ScanWithData", res |-> rt_ScanWithData(input)]
    /\ UNCHANGED <<input, storeVars, callVars, iterVars>>

NextRt == RtWithoutData \/ RtWithData

SpecRt == InitRt /\ [][NextRt]_vars

\* C10: rt is none exactly when the first acquisition entry has no cv record whose
\* name holds "scan start time"; with the record, it is the parsed value taken as
\* seconds when the unit is "second" and as minutes when the unit is "minute", any
\* other text, or absent.
C10_RetentionTime ==
    output # NotApplied =>
        LET k == IF input = <<>> THEN 0 ELSE FindCv(input[1].cv_param, "scan start time")
        IN IF k = 0 THEN output.res.tag = "None"
           ELSE LET cv == input[1].cv_param[k]
                    v == ParseF32(cv.value)
                IN v.ok =>
                    /\ output.res.tag = "Some"
                    /\ output.res.time =
                         IF cv.unit_name.some /\ cv.unit_name.value = "second"
                         THEN v.value ELSE v.value * 60

=============================================================================
